---- MODULE Spec2Model ----
(***************************************************************************)
(* State-machine model of the React Native hooks of this repository:       *)
(*   useNotifications   three variants                                     *)
(*       "filtered"  src/useNotifications.js:12   (bounded set, filter)    *)
(*       "legacy"    src/useNotifications.js:264  (no deduplication)       *)
(*       "basic"     src/unnamed/part_000:12      (unbounded set)          *)
(*   useAppActiveState  src/use-app-active-state.js                        *)
(*   useMediaPicker     src/useMediaPicker.js and                          *)
(*                      src/hooks/useAfterInteractionsEffect.ts:54         *)
(*   useBackHandler     src/unnamed/part_001                               *)
(*   useAfterInteractionsEffect                                            *)
(*                      src/hooks/useAfterInteractionsEffect.ts:4          *)
(* A commit of a render and the effects and cleanups it triggers are one   *)
(* step.                                                                   *)
(* Each await of a library call splits a function into two atomic steps:   *)
(* the synchronous code up to the await, and the continuation that runs    *)
(* when the promise settles.                                               *)
(***************************************************************************)
EXTENDS Integers, Sequences, FiniteSets, TLC

\* ------------------------------------------------------------------ bounds
\* deliveries of messages whose identifier is one of Keys
MaxDeliveries == 2
\* re-renders of the component that uses useBackHandler
MaxRenders == 3
\* hardware back presses
MaxPresses == 2
\* changes of the dependencies of useAfterInteractionsEffect
MaxDepChanges == 3
\* interactions InteractionManager tracks at one time
MaxInteractions == 2
\* times the bounded variant empties processedMessageIds
MaxClears == 1
\* identifiers outside Keys the unbounded variant records
MaxOthers == 3
\* calls of messaging().getToken()
MaxTokenCalls == 3
\* notification taps and opened-from-background events
MaxTaps == 2
\* AppState change events
MaxAppEvents == 4
\* calls of the media picker's pick functions
MaxCalls == 2

\* ------------------------------------------------------- program constants
\* src/useNotifications.js:130   processedMessageIds.current.size > 1000
MaxProcessedIds == 1000

\* ------------------------------------------------------------------- state
VARIABLES
    variant,              \* which useNotifications source is mounted
    phase,                \* "rendered" | "mounted" | "unmounted"
    effectCleanup,        \* React holds a cleanup function for the effect
    onMessageListener,    \* messaging().onMessage listener registered
    openedAppListener,    \* messaging().onNotificationOpenedApp registered
    clickListener,        \* addNotificationResponseReceivedListener registered
    backgroundHandler,    \* messaging().setBackgroundMessageHandler installed
    processedMessageIds,  \* useRef(new Set()): [known, others]
    clears,               \* times processedMessageIds.clear() ran
    delivered,            \* per key: messages handed to a handler
    scheduled,            \* per key: Notifications.scheduleNotificationAsync calls
    inFlight,             \* per key: scheduleNotificationAsync promises not settled
    permPc,               \* where the permission flow stands
    finalStatus,          \* finalStatus of the permission flow ("none" before)
    permissions,          \* useState(false): the hook's permissions
    tokenPending,         \* messaging().getToken() promises not yet settled
    getTokenCalls,        \* messaging().getToken() calls made
    storage,              \* value under STORAGE_KEYS.FCM_TOKEN ("" = no value)
    storedAtStart,        \* the value storage held when the hook was created
    storageWrites,        \* storage.set(STORAGE_KEYS.FCM_TOKEN, ...) calls made
    lastToken,            \* most recent non-empty token getToken() returned
    initialPc,            \* messaging().getInitialNotification() promise
    navCalls,             \* the navigate(...) calls, in order
    userEvents,           \* taps and opened-from-background events so far
    appPhase,             \* useAppActiveState: "rendered" | "mounted" | "unmounted"
    appStateRef,          \* appState.current
    subscription,         \* the AppState "change" listener is registered
    lastReported,         \* the state AppState reported last
    backgroundSeen,       \* a "background" event came and no "active" since
    callbackCalls,        \* calls of callback()
    appEvents,            \* AppState change events so far
    renderedCallback,     \* the callback argument of the latest render
    listenerCallback,     \* the callback the change listener closed over
    lastInvoked,          \* the callback called last ("" = none yet)
    renderedAtInvoke,     \* renderedCallback at the time of that call
    pickerVariant,        \* "js" src/useMediaPicker.js | "ts" the TypeScript hook
    multiSelect,          \* options.allowsMultipleSelection && !options.allowsEditing
    videoType,            \* mediaType === MEDIA_TYPES.VIDEOS
    mediaStatus,          \* useMediaLibraryPermissions: status?.granted
    cameraStatus,         \* useCameraPermissions: status?.granted
    media,                \* useState(null): uri of the picked asset, "" = null
    multipleMedia,        \* useState(null): uris of the picked assets, <<>> = null
    thumbnail,            \* useState("")
    loading,              \* useState(false)
    calls,                \* the pick calls, one per slot
    thumbnailDue,         \* the [media?.uri, mediaType] effect is to run
    thumbnailPending,     \* uris whose getThumbnailAsync has not settled
    rejected,             \* kinds of pick calls whose promise rejected
    sinceReset,           \* resetMedia() ran and no pick has succeeded since
    bhPhase,              \* useBackHandler: "rendered" | "mounted" | "unmounted"
    committedHandler,     \* the handler argument of the latest committed render
    hardwareBackPress,    \* BackHandler's "hardwareBackPress" listeners, a bag
    gestureStart,         \* navigation's "gestureStart" listeners, a bag
    renders,              \* re-renders of the component using useBackHandler
    lastCalled,           \* the handlers the last back press ran
    presses,              \* hardware back presses so far
    aiPhase,              \* useAfterInteractionsEffect: "rendered" | "mounted" | ...
    generation,           \* times the dependencies changed since mount
    tasks,                \* generations whose runAfterInteractions task is queued
    interactions,         \* interactions InteractionManager is waiting for
    effectRuns            \* per generation: calls of effect()

lifecycleVars == <<phase, effectCleanup, onMessageListener, openedAppListener,
                   clickListener, backgroundHandler>>
dedupVars == <<processedMessageIds, clears, delivered, scheduled, inFlight>>
permVars == <<permPc, finalStatus, permissions>>
tokenVars == <<tokenPending, getTokenCalls, storage, storedAtStart,
               storageWrites, lastToken>>
navVars == <<initialPc, navCalls, userEvents>>
notifVars == <<variant, lifecycleVars, dedupVars, permVars, tokenVars, navVars>>
callbackVars == <<renderedCallback, listenerCallback, lastInvoked,
                  renderedAtInvoke>>
appVars == <<appPhase, appStateRef, subscription, lastReported, backgroundSeen,
             callbackCalls, appEvents, callbackVars>>
pickerVars == <<pickerVariant, multiSelect, videoType, mediaStatus, cameraStatus,
                media, multipleMedia, thumbnail, loading, calls, thumbnailDue,
                thumbnailPending, rejected, sinceReset>>
backVars == <<bhPhase, committedHandler, hardwareBackPress, gestureStart,
              renders, lastCalled, presses>>
aiVars == <<aiPhase, generation, tasks, interactions, effectRuns>>
vars == <<notifVars, appVars, pickerVars, backVars, aiVars>>

\* --------------------------------------------------------- remote messages
\* An identifier that differs from every identifier delivered before it and
\* from every member of Keys: such identifiers are delivered once each, so
\* the model keeps their number and not their values.
Other == "other"

\* remoteMessage.messageId; "" is an absent (falsy) field
MessageIds == {"", "m1", Other}

\* remoteMessage.data: absent, {} or {id: "m1"}
DataValues ==
    { [present |-> FALSE, id |-> ""],
      [present |-> TRUE,  id |-> ""],
      [present |-> TRUE,  id |-> "m1"] }

\* remoteMessage; notification = the message carries a notification payload.
\* A message with an identifier of its own is taken without data: its data
\* plays no part in what the handlers do with it.
Messages ==
    { msg \in [messageId : MessageIds, data : DataValues, notification : BOOLEAN] :
        msg.messageId = Other => ~msg.data.present }

\* JSON.stringify(remoteMessage?.data): undefined for undefined data
JSONStringify(data) ==
    IF ~data.present THEN ""
    ELSE IF data.id = "" THEN "{}"
    ELSE "{id:" \o data.id \o "}"

\* the identifier scheduleNotification deduplicates on
MessageIdOf(v, msg) ==
    IF msg.messageId # "" THEN msg.messageId
    ELSE IF msg.data.present /\ msg.data.id # "" THEN msg.data.id
    ELSE IF v = "filtered" THEN JSONStringify(msg.data)
    ELSE ""

\* the identifiers the model follows one by one
Keys == {"m1", "{}"}

\* ------------------------------------------------- the processed-ids Set
EmptySet == [known |-> {}, others |-> 0]

\* a membership test that finds nothing
SetHasNothing(s, id) == FALSE

\* processedMessageIds.current.has(messageId)
SetHas(s, id) == id # Other /\ id \in s.known

\* an add that records nothing
SetAddNothing(s, id) == s

\* processedMessageIds.current.add(messageId)
SetAdd(s, id) ==
    IF id = Other THEN [s EXCEPT !.others = @ + 1]
    ELSE [s EXCEPT !.known = @ \cup {id}]

SetSize(s) == Cardinality(s.known) + s.others

\* a threshold test that lets one entry too many through
MustClearLate(v, s) == v = "filtered" /\ SetSize(s) > MaxProcessedIds + 1

\* if (processedMessageIds.current.size > 1000) processedMessageIds.current.clear()
MustClear(v, s) == v = "filtered" /\ SetSize(s) > MaxProcessedIds

\* a guard that forgets the membership test
SkipMessageNoHas(s, messageId) == messageId = ""

\* if (!messageId || processedMessageIds.current.has(messageId)) return;
SkipMessage(s, messageId) == messageId = "" \/ SetHas(s, messageId)

RECURSIVE Total(_, _)
Total(f, S) ==
    IF S = {} THEN 0
    ELSE LET k == CHOOSE x \in S : TRUE IN f[k] + Total(f, S \ {k})

\* the handler ran for msg: the log of deliveries
LogDelivery(msg) ==
    LET key == MessageIdOf(variant, msg) IN
    delivered' = IF key \in Keys THEN [delivered EXCEPT ![key] = @ + 1]
                 ELSE delivered

\* scheduleNotification(remoteMessage)
ScheduleNotification(msg) ==
    LET messageId == MessageIdOf(variant, msg) IN
    IF SkipMessage(processedMessageIds, messageId)
    THEN UNCHANGED <<processedMessageIds, clears, scheduled, inFlight>>
    ELSE LET added == SetAdd(processedMessageIds, messageId) IN
         /\ IF MustClear(variant, added)
            THEN processedMessageIds' = EmptySet /\ clears' = clears + 1
            ELSE processedMessageIds' = added /\ UNCHANGED clears
         /\ scheduled' = IF messageId \in Keys
                         THEN [scheduled EXCEPT ![messageId] = @ + 1]
                         ELSE scheduled
         /\ inFlight' = IF messageId \in Keys
                        THEN [inFlight EXCEPT ![messageId] = @ + 1]
                        ELSE inFlight

\* the legacy handlers: Notifications.scheduleNotificationAsync for every message
ScheduleAlways(msg) ==
    LET key == MessageIdOf(variant, msg) IN
    /\ scheduled' = IF key \in Keys THEN [scheduled EXCEPT ![key] = @ + 1]
                     ELSE scheduled
    /\ inFlight' = IF key \in Keys THEN [inFlight EXCEPT ![key] = @ + 1]
                    ELSE inFlight
    /\ UNCHANGED <<processedMessageIds, clears>>

\* what the onMessage and background handlers do with a message
HandleMessage(msg) ==
    IF variant = "legacy" THEN ScheduleAlways(msg) ELSE ScheduleNotification(msg)

\* the environment may deliver msg: bounds on the run
Deliverable(msg) ==
    IF msg.messageId = Other
    THEN IF variant = "filtered" THEN clears < MaxClears
         ELSE processedMessageIds.others < MaxOthers
    ELSE Total(delivered, Keys) < MaxDeliveries

\* messaging().onMessage(async (remoteMessage) => ...)
ForegroundMessage(msg) ==
    /\ UNCHANGED <<appVars, pickerVars, backVars, aiVars>>
    /\ onMessageListener
    /\ Deliverable(msg)
    /\ LogDelivery(msg)
    /\ HandleMessage(msg)
    /\ UNCHANGED <<variant, lifecycleVars, permVars, tokenVars, navVars>>

\* a background handler without the filter
BackgroundSkipsNothing(v, msg) == FALSE

\* Notifications.scheduleNotificationAsync settled for identifier key; the
\* try / catch makes both outcomes the end of scheduleNotification
ScheduleSettled(key) ==
    /\ UNCHANGED <<appVars, pickerVars, backVars, aiVars>>
    /\ inFlight[key] > 0
    /\ inFlight' = [inFlight EXCEPT ![key] = @ - 1]
    /\ UNCHANGED <<variant, lifecycleVars, processedMessageIds, clears, delivered,
                   scheduled, permVars, tokenVars, navVars>>

\* if (remoteMessage?.notification) return;
BackgroundSkips(v, msg) == v = "filtered" /\ msg.notification

\* messaging().setBackgroundMessageHandler(async (remoteMessage) => ...)
BackgroundMessage(msg) ==
    /\ UNCHANGED <<appVars, pickerVars, backVars, aiVars>>
    /\ backgroundHandler
    /\ Deliverable(msg)
    /\ LogDelivery(msg)
    /\ IF BackgroundSkips(variant, msg)
       THEN UNCHANGED <<processedMessageIds, clears, scheduled, inFlight>>
       ELSE HandleMessage(msg)
    /\ UNCHANGED <<variant, lifecycleVars, permVars, tokenVars, navVars>>

\* ---------------------------------------------------------------- lifecycle
\* useEffect(() => {...}, []): the synchronous part of the effect. The
\* filtered and basic variants register every listener here and return the
\* cleanup; the legacy variant only starts initializeNotifications(), whose
\* promise (and the cleanup it resolves to) the effect drops.
Mount ==
    /\ UNCHANGED <<appVars, pickerVars, backVars, aiVars>>
    /\ phase = "rendered"
    /\ phase' = "mounted"
    /\ permPc' = "getPermissions"
    /\ IF variant = "legacy"
       THEN UNCHANGED <<effectCleanup, onMessageListener, openedAppListener,
                        clickListener, backgroundHandler, initialPc>>
       ELSE /\ clickListener' = TRUE
            /\ openedAppListener' = TRUE
            /\ backgroundHandler' = TRUE
            /\ onMessageListener' = TRUE
            /\ effectCleanup' = TRUE
            /\ initialPc' = "pending"
    /\ UNCHANGED <<variant, dedupVars, finalStatus, permissions, tokenVars,
                   navCalls, userEvents>>

\* the cleanup the effect returned, run by React at unmount
Unmount ==
    /\ UNCHANGED <<appVars, pickerVars, backVars, aiVars>>
    /\ phase = "mounted"
    /\ phase' = "unmounted"
    /\ IF effectCleanup
       THEN /\ onMessageListener' = FALSE
            /\ openedAppListener' = FALSE
            /\ clickListener' = FALSE
       ELSE UNCHANGED <<onMessageListener, openedAppListener, clickListener>>
    /\ UNCHANGED <<variant, effectCleanup, backgroundHandler, dedupVars,
                   permVars, tokenVars, navVars>>

\* ---------------------------------------------------- permission and token
Statuses == {"granted", "denied", "undetermined"}
Throws == "throws"
\* what getPermissionsAsync / requestPermissionsAsync settle with
PermissionOutcomes == Statuses \cup {Throws}

Tokens == {"t1", "t2"}
\* what messaging().getToken() settles with; "" is an empty token
TokenOutcomes == Tokens \cup {"", Throws}

\* the flow calls getFcmToken itself once permission is granted
FetchesTokenWhenGranted(v) == v # "legacy"

\* getFcmToken up to its await: messaging().getToken() is called
StartGetToken ==
    /\ tokenPending' = tokenPending + 1
    /\ getTokenCalls' = getTokenCalls + 1
    /\ UNCHANGED <<storage, storedAtStart, storageWrites, lastToken>>

\* the permission flow returned granted: .then(setPermissions), and in the
\* legacy variant the rest of initializeNotifications up to its next await
PermissionFlowEnds(granted) ==
    /\ permPc' = "done"
    /\ permissions' = granted
    /\ IF variant = "legacy"
       THEN /\ clickListener' = TRUE
            /\ openedAppListener' = TRUE
            /\ initialPc' = "pending"
       ELSE UNCHANGED <<clickListener, openedAppListener, initialPc>>

\* finalStatus is known, or the catch block ran (status = Throws)
PermissionSettled(status) ==
    /\ finalStatus' = status
    /\ IF status = "granted" /\ FetchesTokenWhenGranted(variant)
       THEN /\ permPc' = "getToken"
            /\ StartGetToken
            /\ UNCHANGED <<permissions, clickListener, openedAppListener, initialPc>>
       ELSE /\ PermissionFlowEnds(status = "granted")
            /\ UNCHANGED tokenVars

\* Notifications.getPermissionsAsync() settled
PermissionChecked(outcome) ==
    /\ UNCHANGED <<appVars, pickerVars, backVars, aiVars>>
    /\ permPc = "getPermissions"
    /\ IF outcome \in {"granted", Throws}
       THEN PermissionSettled(outcome)
       ELSE /\ permPc' = "requestPermissions"
            /\ UNCHANGED <<finalStatus, permissions, clickListener,
                           openedAppListener, initialPc, tokenVars>>
    /\ UNCHANGED <<variant, phase, effectCleanup, onMessageListener,
                   backgroundHandler, dedupVars, navCalls, userEvents>>

\* Notifications.requestPermissionsAsync() settled
PermissionRequested(outcome) ==
    /\ UNCHANGED <<appVars, pickerVars, backVars, aiVars>>
    /\ permPc = "requestPermissions"
    /\ PermissionSettled(outcome)
    /\ UNCHANGED <<variant, phase, effectCleanup, onMessageListener,
                   backgroundHandler, dedupVars, navCalls, userEvents>>

\* if (fcmToken) storage.set(...): an always-writing variant
StoreTokenAlways(old, outcome) == IF outcome = Throws THEN old ELSE outcome

\* if (fcmToken) storage.set(STORAGE_KEYS.FCM_TOKEN, fcmToken); catch: log
StoreToken(old, outcome) ==
    IF outcome # Throws /\ outcome # "" THEN outcome ELSE old

\* storage.set is called for this outcome
WritesStorage(outcome) == outcome # Throws /\ outcome # ""

\* a permission flow that reports a failed token fetch as not granted
GrantedAfterTokenUnlessFailed(outcome) == outcome # Throws

\* await getFcmToken(); return true;  getFcmToken catches its own errors
GrantedAfterToken(outcome) == TRUE

\* messaging().getToken() settled: the rest of getFcmToken, and in the
\* filtered and basic variants the return true of the permission flow
TokenReturned(outcome) ==
    /\ UNCHANGED <<appVars, pickerVars, backVars, aiVars>>
    /\ tokenPending > 0
    /\ tokenPending' = tokenPending - 1
    /\ storage' = StoreToken(storage, outcome)
    /\ storageWrites' = IF WritesStorage(outcome) THEN storageWrites + 1
                        ELSE storageWrites
    /\ lastToken' = IF outcome \in Tokens THEN outcome ELSE lastToken
    /\ IF FetchesTokenWhenGranted(variant)
       THEN PermissionFlowEnds(GrantedAfterToken(outcome))
       ELSE UNCHANGED <<permPc, permissions, clickListener, openedAppListener,
                        initialPc>>
    /\ UNCHANGED <<variant, phase, effectCleanup, onMessageListener,
                   backgroundHandler, dedupVars, finalStatus, getTokenCalls,
                   storedAtStart, navCalls, userEvents>>

\* the component calls the getFcmToken the legacy hook returns
CallGetFcmToken ==
    /\ UNCHANGED <<appVars, pickerVars, backVars, aiVars>>
    /\ variant = "legacy"
    /\ phase = "mounted"
    /\ getTokenCalls < MaxTokenCalls
    /\ StartGetToken
    /\ UNCHANGED <<variant, lifecycleVars, dedupVars, permVars, navVars>>

\* --------------------------------------------------------------- navigation
ChatScreen == "chatScreen"

\* notification data: absent, a chat, a ride request, anything else
NotificationData ==
    { [present |-> FALSE, type |-> "", notification_type |-> "",
       rideId |-> "", userId |-> "", sender |-> ""],
      [present |-> TRUE, type |-> "new_chat", notification_type |-> "",
       rideId |-> "r1", userId |-> "u1", sender |-> ""],
      [present |-> TRUE, type |-> "other", notification_type |-> "RIDE_REQUESTED",
       rideId |-> "r2", userId |-> "u2", sender |-> "s2"],
      [present |-> TRUE, type |-> "other", notification_type |-> "",
       rideId |-> "r1", userId |-> "u1", sender |-> ""] }

\* navigateToChat(notificationData): the navigate calls it makes
NavigateToChat(v, data) ==
    IF v = "filtered" /\ data.present /\ data.notification_type = "RIDE_REQUESTED"
    THEN <<[screen |-> ChatScreen, rideId |-> data.rideId, driverInfo |-> data.sender]>>
    ELSE IF data.present /\ data.type = "new_chat"
    THEN <<[screen |-> ChatScreen, rideId |-> data.rideId, driverInfo |-> data.userId]>>
    ELSE <<>>

\* handleNotificationClick(response): the filtered variant has its
\* navigateToChat call commented out
HandleNotificationClick(v, data) ==
    IF v = "filtered" THEN <<>> ELSE NavigateToChat(v, data)

\* the onNotificationOpenedApp listener: the filtered variant only logs.
\* data is remoteMessage.data.data after the listener has parsed it.
HandleOpenedApp(v, data) ==
    IF v = "filtered" THEN <<>> ELSE NavigateToChat(v, data)

\* the user taps a delivered notification
Tap(data) ==
    /\ UNCHANGED <<appVars, pickerVars, backVars, aiVars>>
    /\ clickListener
    /\ userEvents < MaxTaps
    /\ userEvents' = userEvents + 1
    /\ navCalls' = navCalls \o HandleNotificationClick(variant, data)
    /\ UNCHANGED <<variant, lifecycleVars, dedupVars, permVars, tokenVars, initialPc>>

\* a notification opens the app from the background
OpenedApp(data) ==
    /\ UNCHANGED <<appVars, pickerVars, backVars, aiVars>>
    /\ openedAppListener
    /\ userEvents < MaxTaps
    /\ userEvents' = userEvents + 1
    /\ navCalls' = navCalls \o HandleOpenedApp(variant, data)
    /\ UNCHANGED <<variant, lifecycleVars, dedupVars, permVars, tokenVars, initialPc>>

\* messaging().getInitialNotification() settled. In the legacy variant the
\* await sits inside initializeNotifications: the background and foreground
\* handlers are installed after it, and not at all when it throws.
InitialNotification(data, throws) ==
    /\ UNCHANGED <<appVars, pickerVars, backVars, aiVars>>
    /\ initialPc = "pending"
    /\ initialPc' = "done"
    /\ navCalls' = IF throws THEN navCalls
                   ELSE navCalls \o HandleOpenedApp(variant, data)
    /\ IF variant = "legacy" /\ ~throws
       THEN backgroundHandler' = TRUE /\ onMessageListener' = TRUE
       ELSE UNCHANGED <<backgroundHandler, onMessageListener>>
    /\ UNCHANGED <<variant, phase, effectCleanup, openedAppListener, clickListener,
                   dedupVars, permVars, tokenVars, userEvents>>

\* -------------------------------------------------------- useAppActiveState
AppStates == {"active", "background", "inactive"}

\* what the hook hands back to the component: the function has no return
ReturnValue == "undefined"

\* the identities the callback argument can have across renders
Callbacks == {"cb1", "cb2"}
\* the callback of the first render
FirstCallback == "cb1"

\* a listener that calls whatever callback the latest render passed
LatestCallback(captured, latest) == latest

\* callback(): the variable of the render whose effect made the listener
InvokedCallback(captured, latest) == captured

\* the test of the React Native documentation: any state but "active" before
CallsBackFromAny(ref, nextAppState) == nextAppState = "active" /\ ref # "active"

\* if (nextAppState === "active" && appState.current === "background")
CallsBack(ref, nextAppState) == nextAppState = "active" /\ ref = "background"

\* useEffect(() => {...}, []): AppState.addEventListener("change", ...)
MountAppState ==
    /\ appPhase = "rendered"
    /\ appPhase' = "mounted"
    /\ subscription' = TRUE
    /\ listenerCallback' = renderedCallback
    /\ UNCHANGED <<appStateRef, lastReported, backgroundSeen, callbackCalls,
                   appEvents, renderedCallback, lastInvoked, renderedAtInvoke,
                   notifVars, pickerVars, backVars, aiVars>>

\* the component renders again and passes cb: the effect has [] as its
\* dependencies and does not run again
RerenderAppState(cb) ==
    /\ appPhase = "mounted"
    /\ cb # renderedCallback
    /\ renderedCallback' = cb
    /\ UNCHANGED <<appPhase, appStateRef, subscription, lastReported,
                   backgroundSeen, callbackCalls, appEvents, listenerCallback,
                   lastInvoked, renderedAtInvoke, notifVars, pickerVars, backVars,
                   aiVars>>

\* AppState reports a change to nextAppState; the listener runs if registered
AppStateChange(nextAppState) ==
    /\ appEvents < MaxAppEvents
    /\ nextAppState # lastReported
    /\ appEvents' = appEvents + 1
    /\ lastReported' = nextAppState
    /\ IF subscription
       THEN /\ callbackCalls' = IF CallsBack(appStateRef, nextAppState)
                                THEN callbackCalls + 1 ELSE callbackCalls
            /\ IF CallsBack(appStateRef, nextAppState)
               THEN /\ lastInvoked' =
                          InvokedCallback(listenerCallback, renderedCallback)
                    /\ renderedAtInvoke' = renderedCallback
               ELSE UNCHANGED <<lastInvoked, renderedAtInvoke>>
            /\ appStateRef' = nextAppState
            /\ backgroundSeen' = IF nextAppState = "background" THEN TRUE
                                 ELSE IF nextAppState = "active" THEN FALSE
                                 ELSE backgroundSeen
       ELSE UNCHANGED <<callbackCalls, appStateRef, backgroundSeen, lastInvoked,
                        renderedAtInvoke>>
    /\ UNCHANGED <<appPhase, subscription, renderedCallback, listenerCallback,
                   notifVars, pickerVars, backVars, aiVars>>

\* the cleanup: subscription.remove()
UnmountAppState ==
    /\ appPhase = "mounted"
    /\ appPhase' = "unmounted"
    /\ subscription' = FALSE
    /\ UNCHANGED <<appStateRef, lastReported, backgroundSeen, callbackCalls,
                   appEvents, callbackVars, notifVars, pickerVars, backVars,
                   aiVars>>

\* ------------------------------------------------------------ useMediaPicker
Slots == 1 .. MaxCalls

Uris == {"u1", "u2"}
\* what a picker settles with: a cancel, an exception or one asset
PickOutcomes == Uris \cup {"canceled", Throws}

IdleCall == [kind |-> "none", pc |-> "idle", hadStatus |-> FALSE,
             requestGranted |-> FALSE, launched |-> FALSE]

\* mediaStatus?.granted / cameraStatus?.granted
StatusOf(kind) == IF kind = "library" THEN mediaStatus ELSE cameraStatus

\* a permission test that lets every answer through
ProceedsAfterRequestAlways(granted) == TRUE

\* if (!permission.granted) return;  /  if (!hasPermission) return;
ProceedsAfterRequest(granted) == granted

\* launchImageLibraryAsync / launchCameraAsync / getDocumentAsync is called;
\* the TypeScript hook runs setLoading(true) first
Launch(slot, c) ==
    /\ calls' = [calls EXCEPT ![slot] = [c EXCEPT !.pc = "picking", !.launched = TRUE]]
    /\ loading' = IF pickerVariant = "ts" THEN TRUE ELSE loading

\* pickImageWithLibrary / chooseImageFromLibrary / pickImageWithCamera up to
\* the first await
StartPick(slot, kind) ==
    /\ calls[slot].pc = "idle"
    /\ LET c == [calls[slot] EXCEPT !.kind = kind, !.hadStatus = StatusOf(kind)] IN
       IF StatusOf(kind)
       THEN Launch(slot, c)
       ELSE /\ calls' = [calls EXCEPT ![slot] = [c EXCEPT !.pc = "requesting"]]
            /\ UNCHANGED loading
    /\ UNCHANGED <<pickerVariant, multiSelect, videoType, mediaStatus, cameraStatus,
                   media, multipleMedia, thumbnail, thumbnailDue, thumbnailPending,
                   rejected, sinceReset, notifVars, appVars, backVars, aiVars>>

\* requestMediaPermission() / requestCameraPermission() settled
PermissionAnswered(slot, granted) ==
    /\ calls[slot].pc = "requesting"
    /\ IF calls[slot].kind = "library"
       THEN mediaStatus' = granted /\ UNCHANGED cameraStatus
       ELSE cameraStatus' = granted /\ UNCHANGED mediaStatus
    /\ LET c == [calls[slot] EXCEPT !.requestGranted = granted] IN
       IF ProceedsAfterRequest(granted)
       THEN Launch(slot, c)
       ELSE /\ calls' = [calls EXCEPT ![slot] = [c EXCEPT !.pc = "done"]]
            /\ UNCHANGED loading
    /\ UNCHANGED <<pickerVariant, multiSelect, videoType, media, multipleMedia,
                   thumbnail, thumbnailDue, thumbnailPending, rejected, sinceReset,
                   notifVars,
                   appVars, backVars, aiVars>>

\* requestMediaPermission() / requestCameraPermission() rejected: the await
\* stands outside every try, in handlePermission as in the JavaScript hook
PermissionRequestThrows(slot) ==
    /\ calls[slot].pc = "requesting"
    /\ calls' = [calls EXCEPT ![slot].pc = "done"]
    /\ rejected' = rejected \cup {calls[slot].kind}
    /\ UNCHANGED <<pickerVariant, multiSelect, videoType, mediaStatus, cameraStatus,
                   media, multipleMedia, thumbnail, loading, thumbnailDue,
                   thumbnailPending, sinceReset, notifVars, appVars, backVars, aiVars>>

\* pickDocument up to its await: no permission is asked for
StartPickDocument(slot) ==
    /\ pickerVariant = "ts"
    /\ calls[slot].pc = "idle"
    /\ Launch(slot, [calls[slot] EXCEPT !.kind = "document"])
    /\ UNCHANGED <<pickerVariant, multiSelect, videoType, mediaStatus, cameraStatus,
                   media, multipleMedia, thumbnail, thumbnailDue, thumbnailPending,
                   rejected, sinceReset, notifVars, appVars, backVars, aiVars>>

\* an exception of the launch call leaves the pick function: only the
\* TypeScript hook wraps the call in try / catch
LaunchErrorPropagates(v, outcome) == v = "js" /\ outcome = Throws

\* the picker settled: the rest of the pick function. The JavaScript hook
\* has no try: an exception leaves it without touching the state.
PickReturned(slot, outcome) ==
    /\ calls[slot].pc = "picking"
    /\ calls' = [calls EXCEPT ![slot].pc = "done"]
    /\ IF outcome \in Uris
       THEN IF pickerVariant = "ts" /\ multiSelect
            THEN multipleMedia' = <<outcome>> /\ UNCHANGED media
            ELSE media' = outcome /\ UNCHANGED multipleMedia
       ELSE UNCHANGED <<media, multipleMedia>>
    /\ loading' = IF pickerVariant = "ts" THEN FALSE ELSE loading
    /\ thumbnailDue' = (thumbnailDue \/ (pickerVariant = "ts" /\ media' # media))
    /\ rejected' = IF LaunchErrorPropagates(pickerVariant, outcome)
                   THEN rejected \cup {calls[slot].kind} ELSE rejected
    /\ sinceReset' = (sinceReset /\ outcome \notin Uris)
    /\ UNCHANGED <<pickerVariant, multiSelect, videoType, mediaStatus, cameraStatus,
                   thumbnail, thumbnailPending, notifVars, appVars, backVars, aiVars>>

\* useEffect(() => { generateThumbnail(); }, [media?.uri, mediaType]) after
\* a render with a new media?.uri: generateThumbnail up to its await
ThumbnailEffect ==
    /\ thumbnailDue
    /\ thumbnailDue' = FALSE
    /\ IF media = "" \/ ~videoType
       THEN UNCHANGED <<loading, thumbnailPending>>
       ELSE /\ loading' = TRUE
            /\ thumbnailPending' = Append(thumbnailPending, media)
    /\ UNCHANGED <<pickerVariant, multiSelect, videoType, mediaStatus, cameraStatus,
                   media, multipleMedia, thumbnail, calls, rejected, sinceReset,
                   notifVars,
                   appVars, backVars, aiVars>>

\* the sequence without its i-th element
RemoveAt(seq, i) == SubSeq(seq, 1, i - 1) \o SubSeq(seq, i + 1, Len(seq))

\* VideoThumbnails.getThumbnailAsync settled: setThumbail(uri) or the catch,
\* then the finally
ThumbnailReturned(i, ok) ==
    /\ i \in 1 .. Len(thumbnailPending)
    /\ thumbnailPending' = RemoveAt(thumbnailPending, i)
    /\ thumbnail' = IF ok THEN "thumb:" \o thumbnailPending[i] ELSE thumbnail
    /\ loading' = FALSE
    /\ UNCHANGED <<pickerVariant, multiSelect, videoType, mediaStatus, cameraStatus,
                   media, multipleMedia, calls, thumbnailDue, rejected, sinceReset,
                   notifVars,
                   appVars, backVars, aiVars>>

\* resetMedia()
ResetMedia ==
    /\ media' = ""
    /\ IF pickerVariant = "ts"
       THEN multipleMedia' = <<>> /\ thumbnail' = ""
       ELSE UNCHANGED <<multipleMedia, thumbnail>>
    /\ thumbnailDue' = (thumbnailDue \/ (pickerVariant = "ts" /\ media # ""))
    /\ sinceReset' = TRUE
    /\ UNCHANGED <<pickerVariant, multiSelect, videoType, mediaStatus, cameraStatus,
                   loading, calls, thumbnailPending, rejected, notifVars, appVars,
                   backVars, aiVars>>

\* ------------------------------------------------------------ useBackHandler
\* the identities a handler function can have across renders
Handlers == {"h1", "h2", "h3"}

NoListeners == [h \in Handlers |-> 0]

\* addEventListener / addListener
AddListener(listeners, h) == [listeners EXCEPT ![h] = @ + 1]

\* a cleanup that removes nothing
RemoveNoListener(listeners, h) == listeners

\* removeEventListener / removeListener: a handler not registered is ignored
RemoveListener(listeners, h) ==
    [listeners EXCEPT ![h] = IF @ > 0 THEN @ - 1 ELSE 0]

\* the effect body, for the handler of the render that is committed
BackHandlerEffect(h) ==
    /\ hardwareBackPress' = AddListener(hardwareBackPress, h)
    /\ gestureStart' = AddListener(gestureStart, h)

\* the first commit: the effect runs with the handler of the first render
MountBackHandler ==
    /\ bhPhase = "rendered"
    /\ bhPhase' = "mounted"
    /\ BackHandlerEffect(committedHandler)
    /\ UNCHANGED <<committedHandler, renders, lastCalled, presses, notifVars,
                   appVars, pickerVars, aiVars>>

\* a re-render is committed with handler h: [handler] changed means the
\* cleanup of the previous effect, then the effect again
RenderBackHandler(h) ==
    /\ bhPhase = "mounted"
    /\ renders < MaxRenders
    /\ renders' = renders + 1
    /\ committedHandler' = h
    /\ IF h # committedHandler
       THEN /\ hardwareBackPress' =
                  AddListener(RemoveListener(hardwareBackPress, committedHandler), h)
            /\ gestureStart' =
                  AddListener(RemoveListener(gestureStart, committedHandler), h)
       ELSE UNCHANGED <<hardwareBackPress, gestureStart>>
    /\ UNCHANGED <<bhPhase, lastCalled, presses, notifVars, appVars, pickerVars,
                   aiVars>>

\* the user presses the hardware back button: BackHandler runs its listeners
BackPress ==
    /\ presses < MaxPresses
    /\ presses' = presses + 1
    /\ lastCalled' = { h \in Handlers : hardwareBackPress[h] > 0 }
    /\ UNCHANGED <<bhPhase, committedHandler, hardwareBackPress, gestureStart,
                   renders, notifVars, appVars, pickerVars, aiVars>>

\* unmount: the cleanup of the last effect
UnmountBackHandler ==
    /\ bhPhase = "mounted"
    /\ bhPhase' = "unmounted"
    /\ hardwareBackPress' = RemoveListener(hardwareBackPress, committedHandler)
    /\ gestureStart' = RemoveListener(gestureStart, committedHandler)
    /\ UNCHANGED <<committedHandler, renders, lastCalled, presses, notifVars,
                   appVars, pickerVars, aiVars>>

\* ------------------------------------------------ useAfterInteractionsEffect
\* one generation per run of the useEffect: the mount and each change of deps
Generations == 0 .. MaxDepChanges

\* InteractionManager.runAfterInteractions(() => { effect(); })
QueueTask(queue, g) == queue \cup {g}

\* a cancel() that leaves the task queued
KeepTask(queue, g) == queue

\* interaction.cancel()
CancelTask(queue, g) == queue \ {g}

\* the first commit: the useEffect body queues the task
MountAfterInteractions ==
    /\ aiPhase = "rendered"
    /\ aiPhase' = "mounted"
    /\ tasks' = QueueTask(tasks, generation)
    /\ UNCHANGED <<generation, interactions, effectRuns, notifVars, appVars,
                   pickerVars, backVars>>

\* a render with changed deps: the cleanup of the previous effect, then the
\* effect again
DepsChange ==
    /\ aiPhase = "mounted"
    /\ generation < MaxDepChanges
    /\ generation' = generation + 1
    /\ tasks' = QueueTask(CancelTask(tasks, generation), generation + 1)
    /\ UNCHANGED <<aiPhase, interactions, effectRuns, notifVars, appVars,
                   pickerVars, backVars>>

\* an animation or gesture begins: InteractionManager.createInteractionHandle
InteractionStarts ==
    /\ interactions < MaxInteractions
    /\ interactions' = interactions + 1
    /\ UNCHANGED <<aiPhase, generation, tasks, effectRuns, notifVars, appVars,
                   pickerVars, backVars>>

\* InteractionManager.clearInteractionHandle
InteractionEnds ==
    /\ interactions > 0
    /\ interactions' = interactions - 1
    /\ UNCHANGED <<aiPhase, generation, tasks, effectRuns, notifVars, appVars,
                   pickerVars, backVars>>

\* InteractionManager runs a queued task once no interaction is left: effect()
RunTask(g) ==
    /\ g \in tasks
    /\ interactions = 0
    /\ tasks' = tasks \ {g}
    /\ effectRuns' = [effectRuns EXCEPT ![g] = @ + 1]
    /\ UNCHANGED <<aiPhase, generation, interactions, notifVars, appVars,
                   pickerVars, backVars>>

\* unmount: the cleanup of the last effect
UnmountAfterInteractions ==
    /\ aiPhase = "mounted"
    /\ aiPhase' = "unmounted"
    /\ tasks' = CancelTask(tasks, generation)
    /\ UNCHANGED <<generation, interactions, effectRuns, notifVars, appVars,
                   pickerVars, backVars>>

\* -------------------------------------------------------------------- specs
InitNotifications ==
    /\ phase = "rendered"
    /\ effectCleanup = FALSE
    /\ onMessageListener = FALSE
    /\ openedAppListener = FALSE
    /\ clickListener = FALSE
    /\ backgroundHandler = FALSE
    /\ processedMessageIds = EmptySet
    /\ clears = 0
    /\ delivered = [k \in Keys |-> 0]
    /\ scheduled = [k \in Keys |-> 0]
    /\ inFlight = [k \in Keys |-> 0]
    /\ permPc = "idle"
    /\ finalStatus = "none"
    /\ permissions = FALSE
    /\ tokenPending = 0
    /\ getTokenCalls = 0
    /\ storage \in {"", "t0"}
    /\ storedAtStart = storage
    /\ storageWrites = 0
    /\ lastToken = ""
    /\ initialPc = "idle"
    /\ navCalls = <<>>
    /\ userEvents = 0

Variants == {"filtered", "legacy", "basic"}

\* useAppActiveState before its effect ran, the app being in state st
InitAppState(st) ==
    /\ appPhase = "rendered"
    /\ appStateRef = st
    /\ subscription = FALSE
    /\ lastReported = st
    /\ backgroundSeen = FALSE
    /\ callbackCalls = 0
    /\ appEvents = 0
    /\ renderedCallback = FirstCallback
    /\ listenerCallback = ""
    /\ lastInvoked = ""
    /\ renderedAtInvoke = ""

\* useMediaPicker after its first render
InitPicker ==
    /\ media = ""
    /\ multipleMedia = <<>>
    /\ thumbnail = ""
    /\ loading = FALSE
    /\ calls = [slot \in Slots |-> IdleCall]
    /\ thumbnailDue = FALSE
    /\ thumbnailPending = <<>>
    /\ rejected = {}
    /\ sinceReset = FALSE

\* a media picker with nothing granted, left alone
IdlePicker ==
    /\ pickerVariant = "js"
    /\ multiSelect = FALSE
    /\ videoType = FALSE
    /\ mediaStatus = FALSE
    /\ cameraStatus = FALSE
    /\ InitPicker

\* a useNotifications that is never mounted
IdleNotifications ==
    /\ variant = "basic"
    /\ InitNotifications
    /\ storage = ""

\* useBackHandler after the first render with handler h
InitBackHandler(h) ==
    /\ bhPhase = "rendered"
    /\ committedHandler = h
    /\ hardwareBackPress = NoListeners
    /\ gestureStart = NoListeners
    /\ renders = 0
    /\ lastCalled = {}
    /\ presses = 0

\* useAfterInteractionsEffect after the first render
InitAfterInteractions ==
    /\ aiPhase = "rendered"
    /\ generation = 0
    /\ tasks = {}
    /\ effectRuns = [g \in Generations |-> 0]

\* the two small hooks, left alone
IdleOthers ==
    /\ InitBackHandler("h1")
    /\ InitAfterInteractions
    /\ interactions = 0

InitDedup ==
    /\ variant \in {"filtered", "basic"}
    /\ InitNotifications
    /\ storage = ""
    /\ InitAppState("active")
    /\ IdlePicker
    /\ IdleOthers

NextDedup ==
    \/ Mount
    \/ \E msg \in Messages : ForegroundMessage(msg)
    \/ \E msg \in Messages : BackgroundMessage(msg)

SpecDedup == InitDedup /\ [][NextDedup]_vars

\* deduplication with the scheduleNotificationAsync calls settling in between
NextOverlap ==
    \/ NextDedup
    \/ \E key \in Keys : ScheduleSettled(key)

SpecOverlap == InitDedup /\ [][NextOverlap]_vars

\* permission, token and storage, in the three variants
InitToken ==
    /\ variant \in Variants
    /\ InitNotifications
    /\ InitAppState("active")
    /\ IdlePicker
    /\ IdleOthers

NextToken ==
    \/ Mount
    \/ \E outcome \in PermissionOutcomes : PermissionChecked(outcome)
    \/ \E outcome \in PermissionOutcomes : PermissionRequested(outcome)
    \/ \E outcome \in TokenOutcomes : TokenReturned(outcome)
    \/ CallGetFcmToken
    \/ Unmount

SpecToken == InitToken /\ [][NextToken]_vars

\* listeners, taps and messages over the life of the hook, in the three variants
TrackedMessages == { msg \in Messages : msg.messageId # Other }

InitLife ==
    /\ variant \in Variants
    /\ InitNotifications
    /\ storage = ""
    /\ InitAppState("active")
    /\ IdlePicker
    /\ IdleOthers

NextLife ==
    \/ Mount
    \/ \E outcome \in PermissionOutcomes : PermissionChecked(outcome)
    \/ \E outcome \in PermissionOutcomes : PermissionRequested(outcome)
    \/ \E data \in NotificationData, throws \in BOOLEAN : InitialNotification(data, throws)
    \/ \E data \in NotificationData : Tap(data)
    \/ \E data \in NotificationData : OpenedApp(data)
    \/ \E msg \in TrackedMessages : ForegroundMessage(msg)
    \/ \E msg \in TrackedMessages : BackgroundMessage(msg)
    \/ Unmount

SpecLife == InitLife /\ [][NextLife]_vars

\* useAppActiveState
InitApp ==
    /\ \E st \in AppStates : InitAppState(st)
    /\ IdleNotifications
    /\ IdlePicker
    /\ IdleOthers

NextApp ==
    \/ MountAppState
    \/ \E nextAppState \in AppStates : AppStateChange(nextAppState)
    \/ \E cb \in Callbacks : RerenderAppState(cb)
    \/ UnmountAppState

SpecApp == InitApp /\ [][NextApp]_vars

\* useMediaPicker, both sources
InitMedia ==
    /\ pickerVariant \in {"js", "ts"}
    /\ multiSelect \in (IF pickerVariant = "ts" THEN BOOLEAN ELSE {FALSE})
    /\ videoType \in (IF pickerVariant = "ts" THEN BOOLEAN ELSE {FALSE})
    /\ mediaStatus \in BOOLEAN
    /\ cameraStatus \in BOOLEAN
    /\ InitPicker
    /\ IdleNotifications
    /\ InitAppState("active")
    /\ IdleOthers

NextMedia ==
    \/ \E slot \in Slots, kind \in {"library", "camera"} : StartPick(slot, kind)
    \/ \E slot \in Slots, granted \in BOOLEAN : PermissionAnswered(slot, granted)
    \/ \E slot \in Slots : PermissionRequestThrows(slot)
    \/ \E slot \in Slots : StartPickDocument(slot)
    \/ \E slot \in Slots, outcome \in PickOutcomes : PickReturned(slot, outcome)
    \/ ThumbnailEffect
    \/ \E i \in 1 .. MaxCalls, ok \in BOOLEAN : ThumbnailReturned(i, ok)
    \/ ResetMedia

SpecMedia == InitMedia /\ [][NextMedia]_vars

\* useBackHandler
InitBack ==
    /\ \E h \in Handlers : InitBackHandler(h)
    /\ InitAfterInteractions
    /\ interactions = 0
    /\ IdleNotifications
    /\ InitAppState("active")
    /\ IdlePicker

NextBack ==
    \/ MountBackHandler
    \/ \E h \in Handlers : RenderBackHandler(h)
    \/ BackPress
    \/ UnmountBackHandler

SpecBack == InitBack /\ [][NextBack]_vars

\* useAfterInteractionsEffect
InitAfter ==
    /\ InitAfterInteractions
    /\ interactions \in {0, 1}
    /\ InitBackHandler("h1")
    /\ IdleNotifications
    /\ InitAppState("active")
    /\ IdlePicker

NextAfter ==
    \/ MountAfterInteractions
    \/ DepsChange
    \/ InteractionStarts
    \/ InteractionEnds
    \/ \E g \in Generations : RunTask(g)
    \/ UnmountAfterInteractions

SpecAfter == InitAfter /\ [][NextAfter]_vars

\* ------------------------------------------------------------------- claims
\* C1: once an identifier is in the processed set, a later foreground or
\* background message with the same identifier schedules no local
\* notification and leaves the set as it is (the set not being cleared in
\* between is what "is in the set" means here).
C1_DuplicateIsSkipped ==
    [][\A msg \in Messages :
          ( /\ SetHas(processedMessageIds, MessageIdOf(variant, msg))
            /\ (ForegroundMessage(msg) \/ BackgroundMessage(msg)) )
          => UNCHANGED <<processedMessageIds, clears, scheduled>>]_vars

\* a second delivery of "m1" met the identifier in the set and was dropped
C1_Witness ==
    /\ delivered["m1"] >= 2
    /\ scheduled["m1"] = 1
    /\ clears = 0
    /\ SetHas(processedMessageIds, "m1")

\* C2 as stated: for any sequence of foreground and background messages
\* received while the hook is mounted, at most one local notification is
\* scheduled per message identifier.
C2_AtMostOnePerIdentifier ==
    phase = "mounted" => \A k \in Keys : scheduled[k] <= 1

\* C2 amended: at most one local notification is scheduled per message
\* identifier between two clears of the processed set, so a run with c
\* clears schedules at most c + 1 notifications for one identifier.
C2_AtMostOnePerIdentifierPerClear ==
    \A k \in Keys : scheduled[k] <= clears + 1

\* "m1" came twice before the set was cleared and was shown once
C2_Witness ==
    /\ clears = 1
    /\ delivered["m1"] = 2
    /\ delivered["{}"] = 0
    /\ scheduled["m1"] = 1
    /\ ~SetHas(processedMessageIds, "m1")

\* C3: in the bounded variant the processed set holds at most 1000 entries
\* whenever a scheduleNotification call has done its synchronous bookkeeping.
C3_SetIsBounded ==
    variant = "filtered" => SetSize(processedMessageIds) <= MaxProcessedIds

\* the set is full: the next new identifier empties it
C3_Witness ==
    /\ variant = "filtered"
    /\ SetSize(processedMessageIds) = MaxProcessedIds
    /\ scheduled["m1"] = 1

\* C4 as stated: messaging().getToken() is called and the FCM_TOKEN key is
\* written only after the permission's final status is "granted"; while it is
\* denied, undetermined, not yet known or its check failed, neither happens.
C4_TokenOnlyAfterGranted ==
    (getTokenCalls > 0 \/ storageWrites > 0) => finalStatus = "granted"

\* C5: the value under FCM_TOKEN is the most recent non-empty token that
\* messaging().getToken() returned, and the value the key held before when
\* every call so far threw or returned an empty token.
C5_StoredTokenIsLatest ==
    storage = IF lastToken = "" THEN storedAtStart ELSE lastToken

\* three calls settled: two tokens were stored one over the other, the third
\* call threw or came back empty and left the key alone
C5_Witness ==
    /\ getTokenCalls = 3
    /\ tokenPending = 0
    /\ storageWrites = 2
    /\ storedAtStart = "t0"
    /\ storage = "t2"

\* C6 as stated: in every variant, after the unmount the foreground-message
\* listener, the opened-app listener and the tap listener are removed.
C6_ListenersRemovedAfterUnmount ==
    phase = "unmounted" =>
        ~onMessageListener /\ ~openedAppListener /\ ~clickListener

\* C9 as stated: in every variant a tap on a notification whose data has
\* type "new_chat" calls navigate once with the chat screen, the data's rideId
\* and driverInfo set to the data's userId; a tap of any other type calls
\* navigate with nothing.
C9_TapNavigates ==
    [][\A data \in NotificationData :
          Tap(data) =>
            navCalls' = navCalls \o
                (IF data.present /\ data.type = "new_chat"
                 THEN <<[screen |-> ChatScreen, rideId |-> data.rideId,
                         driverInfo |-> data.userId]>>
                 ELSE <<>>)]_vars

\* C7 as stated: every time AppState reports "active" after having reported
\* "background" with no "active" in between (other states may come in
\* between), the callback is invoked once, while the hook is mounted.
C7_CallbackOnForeground ==
    [][(subscription /\ backgroundSeen /\ AppStateChange("active"))
          => callbackCalls' = callbackCalls + 1]_vars

\* C8 as stated: the hook returns whether the app is active, true exactly
\* when the state reported last is "active".
C8_ReturnsWhetherActive ==
    appPhase = "mounted" =>
        ReturnValue = (IF lastReported = "active" THEN "true" ELSE "false")

\* C10: the gallery (the camera) is launched only if its permission status
\* was granted when the call began or the request made in that call came back
\* granted; a denied request launches nothing and leaves media, multipleMedia
\* and loading as they are.
C10_LaunchOnlyWithPermission ==
    /\ [](\A slot \in Slots :
            (calls[slot].launched /\ calls[slot].kind \in {"library", "camera"})
                => (calls[slot].hadStatus \/ calls[slot].requestGranted))
    /\ [][\A slot \in Slots :
            PermissionAnswered(slot, FALSE) =>
                /\ UNCHANGED <<media, multipleMedia, loading>>
                /\ ~calls'[slot].launched]_vars

\* one call was refused and launched nothing, another was let through by the
\* answer to its own request
C10_Witness ==
    /\ calls[1].pc = "done"
    /\ ~calls[1].hadStatus /\ ~calls[1].requestGranted /\ ~calls[1].launched
    /\ calls[2].launched
    /\ ~calls[2].hadStatus /\ calls[2].requestGranted

\* C11: a failure of a library call a pick function awaits never leaves the
\* function as a rejected promise.
C11_NoErrorLeavesTheHook == rejected = {}

\* C12: while the hook is mounted, permissions is false until the permission
\* flow has finished and from then on is true exactly when the final status
\* is "granted", whatever the token fetch did; a check or request that threw
\* leaves it false.
C12_PermissionsIsFinalStatus ==
    phase = "mounted" =>
        /\ permPc # "done" => permissions = FALSE
        /\ permPc = "done" => (permissions <=> finalStatus = "granted")
        /\ (permPc = "done" /\ finalStatus = Throws) => permissions = FALSE

\* the flow finished granted although the one token fetch failed or came
\* back empty
C12_Witness ==
    /\ phase = "mounted"
    /\ FetchesTokenWhenGranted(variant)
    /\ permPc = "done"
    /\ finalStatus = "granted"
    /\ permissions = TRUE
    /\ getTokenCalls = 1
    /\ tokenPending = 0
    /\ storageWrites = 0

\* C13: while the component is mounted, exactly one "hardwareBackPress"
\* listener and one "gestureStart" listener of the hook are registered, both
\* the handler of the latest committed render; after unmount none is.
C13_ExactlyTheCurrentHandler ==
    /\ bhPhase = "mounted" =>
          \A h \in Handlers :
              /\ hardwareBackPress[h] = (IF h = committedHandler THEN 1 ELSE 0)
              /\ gestureStart[h] = (IF h = committedHandler THEN 1 ELSE 0)
    /\ bhPhase = "unmounted" =>
          /\ hardwareBackPress = NoListeners
          /\ gestureStart = NoListeners

\* a back press ran an earlier handler, and after a render with another
\* identity the new one is the listener
C13_Witness ==
    /\ bhPhase = "mounted"
    /\ lastCalled = {"h1"}
    /\ committedHandler = "h2"
    /\ hardwareBackPress["h2"] = 1
    /\ gestureStart["h2"] = 1

\* C14: in the filtered variant a step of the background handler for a
\* message with a notification payload schedules nothing and leaves the
\* processed set as it is; for a data-only message it does what a foreground
\* message does: nothing when the identifier is empty or in the set,
\* otherwise the identifier is recorded (or the set cleared) and one
\* notification scheduled.
C14_BackgroundFilter ==
    [][\A msg \in Messages :
          (variant = "filtered" /\ BackgroundMessage(msg)) =>
              LET messageId == MessageIdOf(variant, msg) IN
              IF \/ msg.notification
                 \/ messageId = ""
                 \/ SetHas(processedMessageIds, messageId)
              THEN UNCHANGED <<processedMessageIds, clears, scheduled>>
              ELSE /\ \/ /\ messageId \in Keys =>
                                SetHas(processedMessageIds', messageId)
                         /\ SetSize(processedMessageIds') =
                                SetSize(processedMessageIds) + 1
                      \/ /\ processedMessageIds' = EmptySet
                         /\ clears' = clears + 1
                   /\ messageId \in Keys =>
                          scheduled'[messageId] = scheduled[messageId] + 1
                   /\ \A k \in Keys \ {messageId} : scheduled'[k] = scheduled[k]]_vars

\* a message with a notification payload and a new identifier went through
\* the background handler: nothing scheduled, nothing recorded
C14_Witness ==
    /\ variant = "filtered"
    /\ clears = 0
    /\ delivered["m1"] = 1
    /\ scheduled["m1"] = 0
    /\ ~SetHas(processedMessageIds, "m1")

\* C15 as stated: two invocations of scheduleNotification for one identifier
\* never both have their scheduleNotificationAsync call in flight.
C15_AtMostOneInFlight == \A k \in Keys : inFlight[k] <= 1

\* C15: as long as the set is not cleared between the two, an invocation that
\* starts while an earlier one for the same identifier is awaiting
\* scheduleNotificationAsync schedules nothing: per identifier there is at
\* most one call in flight, and one more for each clear of the set.
C15_AtMostOneInFlightPerClear == \A k \in Keys : inFlight[k] <= clears + 1

\* the second invocation came while the call of the first was in flight,
\* and scheduled nothing
C15_Witness ==
    /\ clears = 0
    /\ delivered["m1"] = 2
    /\ scheduled["m1"] = 1
    /\ inFlight["m1"] = 1

\* C16: the callback is called only by a change event to "active" that the
\* registered listener receives while appState.current is "background", once
\* per such event: not at mount, not from "inactive", not on a change to
\* "background" or "inactive", not after unmount.
C16_CallbackOnlyFromBackground ==
    [][callbackCalls' # callbackCalls =>
          /\ appPhase = "mounted"
          /\ subscription
          /\ appStateRef = "background"
          /\ lastReported' = "active"
          /\ appEvents' = appEvents + 1
          /\ callbackCalls' = callbackCalls + 1]_vars

\* four change events, two of them to "active", and one call
C16_Witness ==
    /\ appPhase = "mounted"
    /\ appEvents = 4
    /\ lastReported = "active"
    /\ appStateRef = "active"
    /\ callbackCalls = 1

\* C17: whatever callbacks later renders pass, the callback a
\* background-to-active change calls is the one of the first render.
C17_MountTimeCallback == lastInvoked \in {"", FirstCallback}

\* the callback of the first render was called when the latest render had
\* passed another
C17_Witness ==
    /\ lastInvoked = FirstCallback
    /\ renderedAtInvoke # FirstCallback
    /\ callbackCalls >= 1

\* C18: in the TypeScript hook loading is true exactly while a picker is
\* open or a thumbnail is being generated.
C18_LoadingIffInFlight ==
    pickerVariant = "ts" =>
        (loading <=> \/ \E slot \in Slots : calls[slot].pc = "picking"
                     \/ thumbnailPending # <<>>)

\* C19: in the TypeScript hook, from resetMedia() until the next pick that
\* succeeds, media and multipleMedia are null and thumbnail is "".
C19_ResetStays ==
    (pickerVariant = "ts" /\ sinceReset) =>
        /\ media = ""
        /\ multipleMedia = <<>>
        /\ thumbnail = ""

\* C20: effect() runs at most once for the mount and for each change of the
\* dependencies, and a run happens only when no interaction is pending, while
\* the component is mounted, and for the current dependencies.
C20_EffectAfterInteractions ==
    /\ [](\A g \in Generations : effectRuns[g] <= 1)
    /\ [][effectRuns' # effectRuns =>
             /\ interactions = 0
             /\ aiPhase = "mounted"
             /\ effectRuns' = [effectRuns EXCEPT ![generation] = @ + 1]]_vars

\* the dependencies changed before the first task could run: the effect ran
\* for the new dependencies only
C20_Witness ==
    /\ generation = 1
    /\ effectRuns[0] = 0
    /\ effectRuns[1] = 1
    /\ tasks = {}

====
